---------------------------- MODULE Spec2Model ----------------------------
(***************************************************************************)
(* Model of streamlit_phone_extractor_with_ready_msg.py: Egyptian mobile   *)
(* number discovery and normalisation, the quantity phrase, the WhatsApp   *)
(* link and the row loop with its first-occurrence deduplication.          *)
(*                                                                         *)
(* A Python str is a sequence of one-character strings.  A character that  *)
(* has no ASCII spelling carries a name: "u0663" is ARABIC-INDIC DIGIT     *)
(* THREE, "u0633" is ARABIC LETTER SEEN, "LF" is the line feed.            *)
(***************************************************************************)
EXTENDS Integers, Sequences, FiniteSets, TLC

VARIABLES
    pc,           \* position of the run that is being modelled
    text,         \* normalize_eg_phone: the cell value passed in
    result,       \* normalize_eg_phone: what it returned
    exit_at,      \* normalize_eg_phone: the return statement that fired
    again,        \* normalize_eg_phone applied to its own result
    row,          \* build_quantity_phrase: the row
    headers,      \* build_quantity_phrase / the loop: list(df.columns)
    phrase,       \* build_quantity_phrase and the total lookup: their outcome
    phone_digits, \* build_wa_link: the phone
    message,      \* build_wa_link: the message
    link,         \* build_wa_link: the link returned
    df,           \* the loop: the rows df.iterrows() has yielded so far
    rows_out,     \* the loop: rows_out
    seen_phones,  \* the loop: seen_phones
    result_count  \* the loop: len(result_df)

vars == <<pc, text, result, exit_at, again, row, headers, phrase,
          phone_digits, message, link, df, rows_out, seen_phones, result_count>>

normVars == <<text, result, exit_at, again>>
phraseVars == <<row, phrase>>
linkVars == <<phone_digits, message, link>>
loopVars == <<df, rows_out, seen_phones, result_count>>

\* The value of a variable that the modelled run does not use.
Idle == <<>>

(***************************************************************************)
(* Values                                                                  *)
(***************************************************************************)

\* A cell is None, the float NaN pandas puts in an empty cell, or a str.
None == [kind |-> "None", s |-> <<>>]
NaN == [kind |-> "NaN", s |-> <<>>]
Str(s) == [kind |-> "str", s |-> s]

\* Optional[str] as returned by the functions.
NoResult == [none |-> TRUE, s |-> <<>>]
Some(s) == [none |-> FALSE, s |-> s]

\* Python truthiness of an Optional[str]: None and "" are falsy.
Truthy(r) == ~r.none /\ r.s # <<>>

\* str(value)
PyStr(v) ==
    IF v.kind = "str" THEN v.s
    ELSE IF v.kind = "NaN" THEN <<"n", "a", "n">>
    ELSE <<"N", "o", "n", "e">>

\* pd.isna(value)
isna(v) == v.kind \in {"None", "NaN"}

AsciiDigits == {"0", "1", "2", "3", "4", "5", "6", "7", "8", "9"}

\* \d of a str pattern: every Unicode decimal digit, not only 0-9.
IsDigit(c) == c \in AsciiDigits \cup {"u0663"}

\* str.strip() and str.isspace(): the white space characters.
IsSpace(c) == c \in {" ", "LF"}

(***************************************************************************)
(* EG_MOBILE_REGEX = (?:\+?20)?0?1\d{9}, searched as re.search does:       *)
(* leftmost start, alternatives in backtracking order.                     *)
(***************************************************************************)

\* The {9} of the pattern.
SubscriberDigits == 9

AtIs(s, j, c) == j >= 1 /\ j <= Len(s) /\ s[j] = c

\* 1\d{9} at j: the position after the match, 0 when it does not match.
MatchCore(s, j) ==
    IF /\ AtIs(s, j, "1")
       /\ j + SubscriberDigits <= Len(s)
       /\ \A d \in 1..SubscriberDigits : IsDigit(s[j + d])
    THEN j + 1 + SubscriberDigits
    ELSE 0

\* 0?1\d{9} at j: the greedy "0" first, then without it.
MatchZeroCore(s, j) ==
    IF AtIs(s, j, "0") /\ MatchCore(s, j + 1) # 0
    THEN MatchCore(s, j + 1)
    ELSE MatchCore(s, j)

\* (?:\+?20)? at i: the positions after the group, in the order the
\* backtracking tries them: "+20", "20", then the group left out.
GroupEnds(s, i) ==
    (IF AtIs(s, i, "+") /\ AtIs(s, i + 1, "2") /\ AtIs(s, i + 2, "0")
     THEN <<i + 3>> ELSE <<>>)
    \o (IF AtIs(s, i, "2") /\ AtIs(s, i + 1, "0") THEN <<i + 2>> ELSE <<>>)
    \o <<i>>

\* The whole pattern at i: the position after the match, 0 for none.
MatchAt(s, i) ==
    LET ends == GroupEnds(s, i)
        ok == {k \in 1..Len(ends) : MatchZeroCore(s, ends[k]) # 0}
    IN  IF ok = {} THEN 0
        ELSE MatchZeroCore(s, ends[CHOOSE k \in ok : \A l \in ok : k <= l])

\* Mutant: the search returns the rightmost match of the cell.
RegexSearchLast(s) ==
    LET starts == {i \in 1..Len(s) : MatchAt(s, i) # 0}
    IN  IF starts = {} THEN [found |-> FALSE, start |-> 0, stop |-> 0]
        ELSE LET i == CHOOSE k \in starts : \A l \in starts : k >= l
             IN  [found |-> TRUE, start |-> i, stop |-> MatchAt(s, i)]

\* EG_MOBILE_REGEX.search(s): [found, start, stop), the leftmost match.
RegexSearch(s) ==
    LET starts == {i \in 1..Len(s) : MatchAt(s, i) # 0}
    IN  IF starts = {} THEN [found |-> FALSE, start |-> 0, stop |-> 0]
        ELSE LET i == CHOOSE k \in starts : \A l \in starts : k <= l
             IN  [found |-> TRUE, start |-> i, stop |-> MatchAt(s, i)]

\* re.sub(r"\D", "", s)
StripNonDigits(s) == SelectSeq(s, IsDigit)

StartsWith(s, p) == Len(s) >= Len(p) /\ SubSeq(s, 1, Len(p)) = p

\* Mutant: the first branch keeps the leading "0" behind the "20".
CanonicalKeepsZero(digits) ==
    IF StartsWith(digits, <<"0">>) /\ Len(digits) = 11
    THEN Some(<<"2", "0">> \o digits)
    ELSE IF StartsWith(digits, <<"2", "0">>) /\ Len(digits) = 12
    THEN Some(digits)
    ELSE IF StartsWith(digits, <<"1">>) /\ Len(digits) = 10
    THEN Some(<<"2", "0">> \o digits)
    ELSE NoResult

\* Mutant: the branch for digits that are canonical already is missing.
CanonicalNoKeep(digits) ==
    IF StartsWith(digits, <<"0">>) /\ Len(digits) = 11
    THEN Some(<<"2", "0">> \o SubSeq(digits, 2, Len(digits)))
    ELSE IF StartsWith(digits, <<"1">>) /\ Len(digits) = 10
    THEN Some(<<"2", "0">> \o digits)
    ELSE NoResult

\* Mutant: the third branch prepends "2" instead of "20".
CanonicalShortPrefix(digits) ==
    IF StartsWith(digits, <<"0">>) /\ Len(digits) = 11
    THEN Some(<<"2", "0">> \o SubSeq(digits, 2, Len(digits)))
    ELSE IF StartsWith(digits, <<"2", "0">>) /\ Len(digits) = 12
    THEN Some(digits)
    ELSE IF StartsWith(digits, <<"1">>) /\ Len(digits) = 10
    THEN Some(<<"2">> \o digits)
    ELSE NoResult

\* The if/elif chain of lines 75-82: the digits in the form 201XXXXXXXXX, or
\* no result from the else branch.
Canonical(digits) ==
    IF StartsWith(digits, <<"0">>) /\ Len(digits) = 11
    THEN Some(<<"2", "0">> \o SubSeq(digits, 2, Len(digits)))
    ELSE IF StartsWith(digits, <<"2", "0">>) /\ Len(digits) = 12
    THEN Some(digits)
    ELSE IF StartsWith(digits, <<"1">>) /\ Len(digits) = 10
    THEN Some(<<"2", "0">> \o digits)
    ELSE NoResult

\* The final check of lines 84-85.
Gate(digits) == StartsWith(digits, <<"2", "0", "1">>) /\ Len(digits) = 12

\* normalize_eg_phone with the return statement that fired.
NormalizeTrace(v) ==
    IF v.kind = "None" THEN [ret |-> NoResult, at |-> "none_input"]
    ELSE
      LET s == PyStr(v)
          m == RegexSearch(s)
      IN  IF ~m.found THEN [ret |-> NoResult, at |-> "no_match"]
          ELSE
            LET digits == StripNonDigits(SubSeq(s, m.start, m.stop - 1))
                c == Canonical(digits)
            IN  IF c.none THEN [ret |-> NoResult, at |-> "else_branch"]
                ELSE IF ~Gate(c.s) THEN [ret |-> NoResult, at |-> "gate"]
                ELSE [ret |-> c, at |-> "return_digits"]

normalize_eg_phone(v) == NormalizeTrace(v).ret

(***************************************************************************)
(* Cell texts the normaliser is run on: every concatenation of at most     *)
(* MaxTokens tokens.                                                       *)
(***************************************************************************)

MaxTokens == 5

\* Nine digits, and nine digits the last of which is an Arabic-Indic one.
Nine == <<"5", "2", "3", "4", "5", "6", "7", "8", "9">>
NineU == <<"5", "2", "3", "4", "5", "6", "7", "8", "u0663">>

Tokens == {<<"+">>, <<"2", "0">>, <<"0">>, <<"1">>, Nine, NineU, <<"x">>}

RECURSIVE Flatten(_)
Flatten(ts) == IF ts = <<>> THEN <<>> ELSE Head(ts) \o Flatten(Tail(ts))

CellTexts(max) ==
    {Flatten(ts) : ts \in UNION {[1..n -> Tokens] : n \in 0..max}}

NormInputs(max) == {None, NaN} \cup {Str(t) : t \in CellTexts(max)}

InitNorm ==
    /\ pc = "call"
    /\ text \in NormInputs(MaxTokens)
    /\ result = NoResult
    /\ exit_at = "pending"
    /\ again = NoResult
    /\ row = Idle /\ headers = Idle /\ phrase = Idle
    /\ phone_digits = Idle /\ message = Idle /\ link = Idle
    /\ df = Idle /\ rows_out = Idle /\ seen_phones = Idle /\ result_count = Idle

\* One call of normalize_eg_phone on the cell.
Normalize ==
    /\ pc = "call"
    /\ result' = normalize_eg_phone(text)
    /\ exit_at' = NormalizeTrace(text).at
    /\ pc' = "returned"
    /\ UNCHANGED <<text, again, headers, phraseVars, linkVars, loopVars>>

\* A second call, on the string the first returned.
Renormalize ==
    /\ pc = "returned"
    /\ ~result.none
    /\ again' = normalize_eg_phone(Str(result.s))
    /\ pc' = "renormalized"
    /\ UNCHANGED <<text, result, exit_at, headers, phraseVars, linkVars, loopVars>>

NextNorm == Normalize \/ Renormalize

SpecNorm == InitNorm /\ [][NextNorm]_vars

(***************************************************************************)
(* build_quantity_phrase and the total lookup                              *)
(***************************************************************************)

NOTES_COL_IDX == 0
TOTAL_COL_IDX == 3
ITEMS_START_IDX == 4
ITEMS_END_IDX_INC == 11

\* What an out-of-range row.iat[idx] or headers[idx] raises.
IndexError == [kind |-> "IndexError", s |-> <<>>]

\* row.iat[idx] and list[idx], idx counted from 0, a negative idx from the end.
iat(seq, idx) ==
    IF idx >= 0 /\ idx < Len(seq) THEN seq[idx + 1]
    ELSE IF idx < 0 /\ -idx <= Len(seq) THEN seq[Len(seq) + idx + 1]
    ELSE IndexError

RECURSIVE LStrip(_)
LStrip(s) == IF s # <<>> /\ IsSpace(Head(s)) THEN LStrip(Tail(s)) ELSE s

RECURSIVE RStrip(_)
RStrip(s) ==
    IF s # <<>> /\ IsSpace(s[Len(s)]) THEN RStrip(SubSeq(s, 1, Len(s) - 1)) ELSE s

\* str.strip()
strip(s) == RStrip(LStrip(s))

DigitChar(d) == <<"0", "1", "2", "3", "4", "5", "6", "7", "8", "9">>[d + 1]

\* The decimal form an f-string gives an int >= 0.
RECURSIVE IntToStr(_)
IntToStr(n) ==
    IF n < 10 THEN <<DigitChar(n)>> ELSE IntToStr(n \div 10) \o <<DigitChar(n % 10)>>

\* f"صنف {idx+1}"
Placeholder(idx) == <<"u0635", "u0646", "u0641", " ">> \o IntToStr(idx + 1)

Min(a, b) == IF a <= b THEN a ELSE b

\* Line 119: the notes cell.
NotesCell(r) == IF Len(r) > NOTES_COL_IDX THEN iat(r, NOTES_COL_IDX) ELSE None

\* Mutant: the item range is clamped to the row only, not to column 12.
ItemsUpperRowOnly(r) == Len(r) - 1

\* Line 125: upper = min(end_inc, len(row) - 1)
ItemsUpper(r) == Min(ITEMS_END_IDX_INC, Len(r) - 1)

\* Line 127: the item's name, a header or the synthesized one.
ItemName(hs, idx) == IF idx < Len(hs) THEN iat(hs, idx) ELSE Str(Placeholder(idx))

\* Line 128: the item's cell.
ItemCell(r, idx) == IF idx < Len(r) THEN iat(r, idx) ELSE None

\* Mutant: only the literal "0" is taken for a zero quantity.
IsExplicitZeroOnlyInt(sval) == sval = <<"0">>

\* Line 135: sval in ("0", "0.0")
IsExplicitZero(sval) == sval \in {<<"0">>, <<"0", ".", "0">>}

\* Lines 127-137: the fragments column idx adds to parts, none or one.
ItemFragment(r, hs, idx) ==
    LET val == ItemCell(r, idx)
        sval == strip(PyStr(val))
    IN  IF isna(val) THEN <<>>
        ELSE IF sval = <<>> THEN <<>>
        ELSE IF IsExplicitZero(sval) THEN <<>>
        ELSE <<ItemName(hs, idx).s \o <<":", " ">> \o sval>>

\* Lines 126-137: the loop over range(idx, upper + 1).
RECURSIVE ItemParts(_, _, _, _)
ItemParts(r, hs, idx, upper) ==
    IF idx > upper THEN <<>>
    ELSE ItemFragment(r, hs, idx) \o ItemParts(r, hs, idx + 1, upper)

\* Lines 119-121: the notes fragment, none or one.
NotePart(r) ==
    LET note == NotesCell(r)
    IN  IF ~isna(note) /\ strip(PyStr(note)) # <<>>
        THEN <<strip(PyStr(note))>> ELSE <<>>

\* "، ".join(parts)
RECURSIVE Join(_)
Join(parts) ==
    IF parts = <<>> THEN <<>>
    ELSE IF Len(parts) = 1 THEN parts[1]
    ELSE parts[1] \o <<"u060C", " ">> \o Join(Tail(parts))

\* Whether a row.iat or headers access of build_quantity_phrase is out of range.
PhraseRaises(r, hs) ==
    \/ NotesCell(r) = IndexError
    \/ \E idx \in ITEMS_START_IDX..ItemsUpper(r) :
         ItemName(hs, idx) = IndexError \/ ItemCell(r, idx) = IndexError

\* build_quantity_phrase(row, headers): the parts, the phrase returned, or
\* the IndexError raised.
build_quantity_phrase(r, hs) ==
    IF PhraseRaises(r, hs)
    THEN [raised |-> TRUE, parts |-> <<>>, joined |-> <<>>]
    ELSE LET parts == NotePart(r) \o ItemParts(r, hs, ITEMS_START_IDX, ItemsUpper(r))
         IN  [raised |-> FALSE, parts |-> parts, joined |-> Join(parts)]

\* Mutant: the total is read without the length check.
TotalValUnguarded(r) == iat(r, TOTAL_COL_IDX)

\* Line 195: total_val
TotalVal(r) == IF Len(r) > TOTAL_COL_IDX THEN iat(r, TOTAL_COL_IDX) ELSE Str(<<>>)

\* Lines 195-196: total_str, or the IndexError raised.
TotalStr(r) ==
    LET total_val == TotalVal(r)
    IN  IF total_val = IndexError THEN [raised |-> TRUE, s |-> <<>>]
        ELSE [raised |-> FALSE,
              s |-> IF isna(total_val) THEN <<>> ELSE strip(PyStr(total_val))]

(***************************************************************************)
(* Rows and headers the phrase builder is run on: a row of at most         *)
(* MaxRowLen cells, all alike but one, and at most MaxHeaders headers.     *)
(***************************************************************************)

MaxRowLen == 13
MaxHeaders == 13

BaseCells == {NaN, Str(<<"3">>), Str(<<"0">>)}

ItemCells ==
    {NaN, None, Str(<<>>), Str(<<" ">>), Str(<<"0">>), Str(<<"0", ".", "0">>),
     Str(<<"0", "0">>), Str(<<"0", ",", "0">>), Str(<<" ", "0", "LF">>),
     Str(<<" ", "2", " ", "x", " ">>)}

PhraseRows(max) ==
    {[i \in 1..n |-> IF i = j THEN w ELSE b] :
        n \in 0..max, j \in 1..max, w \in ItemCells, b \in BaseCells}

\* list(df.columns) of a sheet of n columns: the strs "c0", "c1", ...
HeaderList(n) == [i \in 1..n |-> Str(<<"c">> \o IntToStr(i - 1))]

InitPhrase ==
    /\ pc = "call"
    /\ row \in PhraseRows(MaxRowLen)
    /\ headers \in {HeaderList(n) : n \in 0..MaxHeaders}
    /\ phrase = Idle
    /\ text = Idle /\ result = Idle /\ exit_at = Idle /\ again = Idle
    /\ phone_digits = Idle /\ message = Idle /\ link = Idle
    /\ df = Idle /\ rows_out = Idle /\ seen_phones = Idle /\ result_count = Idle

\* The total lookup and the call of build_quantity_phrase on one row.
BuildPhrase ==
    /\ pc = "call"
    /\ phrase' = [q |-> build_quantity_phrase(row, headers), total |-> TotalStr(row)]
    /\ pc' = "built"
    /\ UNCHANGED <<row, headers, normVars, linkVars, loopVars>>

NextPhrase == BuildPhrase

SpecPhrase == InitPhrase /\ [][NextPhrase]_vars

(***************************************************************************)
(* encode_for_whatsapp and build_wa_link                                   *)
(***************************************************************************)

\* The two literal parts of AR_TEMPLATE_FIXED, before {quantity} and between
\* {quantity} and {total}, each kept as one symbol; quote() turns each into
\* the symbol of its percent-encoded form.
TemplateLiterals == {"TPL_HEAD", "TPL_TOTAL"}

\* ord(c)
CodePoint(c) ==
    CASE c = "LF" -> 10 [] c = " " -> 32 [] c = "#" -> 35 [] c = "%" -> 37
      [] c = "&" -> 38 [] c = "+" -> 43 [] c = "," -> 44 [] c = "-" -> 45
      [] c = "." -> 46 [] c = "/" -> 47
      [] c = "0" -> 48 [] c = "1" -> 49 [] c = "2" -> 50 [] c = "3" -> 51
      [] c = "4" -> 52 [] c = "5" -> 53 [] c = "6" -> 54 [] c = "7" -> 55
      [] c = "8" -> 56 [] c = "9" -> 57
      [] c = ":" -> 58 [] c = "=" -> 61 [] c = "?" -> 63 [] c = "N" -> 78
      [] c = "_" -> 95 [] c = "a" -> 97 [] c = "c" -> 99 [] c = "e" -> 101
      [] c = "n" -> 110 [] c = "o" -> 111 [] c = "x" -> 120 [] c = "~" -> 126
      [] c = "u060C" -> 1548 [] c = "u0633" -> 1587 [] c = "u0635" -> 1589
      [] c = "u0641" -> 1601 [] c = "u0646" -> 1606 [] c = "u0663" -> 1635
      [] c = "u20AC" -> 8364

\* c.encode("utf-8"), the bytes as integers.
Utf8(cp) ==
    IF cp < 128 THEN <<cp>>
    ELSE IF cp < 2048 THEN <<192 + (cp \div 64), 128 + (cp % 64)>>
    ELSE <<224 + (cp \div 4096), 128 + ((cp \div 64) % 64), 128 + (cp % 64)>>

HexChar(n) ==
    <<"0", "1", "2", "3", "4", "5", "6", "7", "8", "9",
      "A", "B", "C", "D", "E", "F">>[n + 1]

\* "%XX" of one byte.
PercentByte(b) == <<"%", HexChar(b \div 16), HexChar(b % 16)>>

RECURSIVE PercentBytes(_)
PercentBytes(bs) ==
    IF bs = <<>> THEN <<>> ELSE PercentByte(Head(bs)) \o PercentBytes(Tail(bs))

\* The characters quote() never escapes: letters, digits and "_.-~".
AlwaysSafe(c) == c \in AsciiDigits \cup {"N", "a", "c", "e", "n", "o", "x", "_", ".", "-", "~"}

\* urllib.parse.quote(s, safe)
RECURSIVE quote(_, _)
quote(s, safe) ==
    IF s = <<>> THEN <<>>
    ELSE LET c == Head(s)
         IN  (IF c \in TemplateLiterals THEN <<"quoted_" \o c>>
              ELSE IF AlwaysSafe(c) \/ c \in safe THEN <<c>>
              ELSE PercentBytes(Utf8(CodePoint(c))))
             \o quote(Tail(s), safe)

\* Mutant: quote() called with its default safe="/".
encode_with_default_safe(s) == quote(s, {"/"})

\* encode_for_whatsapp(text) = quote(text, safe="")
encode_for_whatsapp(s) == quote(s, {})

WaBase == <<"h", "t", "t", "p", "s", ":", "/", "/", "w", "a", ".", "m", "e", "/">>
TextParam == <<"?", "t", "e", "x", "t", "=">>

\* build_wa_link(phone_digits, message)
build_wa_link(phone, msg) ==
    LET base == WaBase \o phone
    IN  IF msg # <<>> /\ strip(msg) # <<>>
        THEN base \o TextParam \o encode_for_whatsapp(msg)
        ELSE base

(***************************************************************************)
(* Messages the link builder is run on: every string of at most MaxMsgLen  *)
(* characters of MsgAlphabet.                                              *)
(***************************************************************************)

MaxMsgLen == 3

MsgAlphabet ==
    {"a", "~", "2", "0", " ", "LF", "&", "?", "=", "/", "#", "%", "u0633", "u20AC"}

Messages(max) == UNION {[1..n -> MsgAlphabet] : n \in 0..max}

LinkPhones == {<<"2", "0", "1">> \o Nine, <<"2", "0", "1", "1">> \o SubSeq(Nine, 2, 9)}

InitLink ==
    /\ pc = "call"
    /\ phone_digits \in LinkPhones
    /\ message \in Messages(MaxMsgLen)
    /\ link = Idle
    /\ text = Idle /\ result = Idle /\ exit_at = Idle /\ again = Idle
    /\ row = Idle /\ headers = Idle /\ phrase = Idle
    /\ df = Idle /\ rows_out = Idle /\ seen_phones = Idle /\ result_count = Idle

\* One call of build_wa_link.
BuildLink ==
    /\ pc = "call"
    /\ link' = build_wa_link(phone_digits, message)
    /\ pc' = "linked"
    /\ UNCHANGED <<phone_digits, message, headers, normVars, phraseVars, loopVars>>

NextLink == BuildLink

SpecLink == InitLink /\ [][NextLink]_vars

(***************************************************************************)
(* The row loop of lines 183-221                                           *)
(***************************************************************************)

\* Mutant: the scan keeps the last cell that yields a number.
RECURSIVE extract_last_phone_from_row(_)
extract_last_phone_from_row(r) ==
    IF r = <<>> THEN NoResult
    ELSE LET digits == normalize_eg_phone(r[Len(r)])
         IN  IF Truthy(digits) THEN digits
             ELSE extract_last_phone_from_row(SubSeq(r, 1, Len(r) - 1))

\* extract_first_phone_from_row(row)
RECURSIVE extract_first_phone_from_row(_)
extract_first_phone_from_row(r) ==
    IF r = <<>> THEN NoResult
    ELSE LET digits == normalize_eg_phone(Head(r))
         IN  IF Truthy(digits) THEN digits
             ELSE extract_first_phone_from_row(Tail(r))

\* AR_TEMPLATE_FIXED.format(quantity=..., total=...)
FormatMessage(quantity, total) ==
    <<"TPL_HEAD">> \o quantity \o <<"TPL_TOTAL">> \o total \o <<" ", ",", ",", ",">>

\* Line 192: phone_display
PhoneDisplay(digits) == <<"+">> \o digits

\* Lines 192-217: the record of a row whose phone is digits.
MakeRecord(r, hs, digits) ==
    LET msg == FormatMessage(build_quantity_phrase(r, hs).joined, TotalStr(r).s)
    IN  [phone |-> PhoneDisplay(digits),
         msg |-> msg,
         link |-> build_wa_link(digits, msg),
         done |-> FALSE]

\* Mutant: the membership test uses the digits without the "+".
SeenByDigits(display, seen) == Tail(display) \in seen

\* Line 208: phone_display in seen_phones
IsDuplicate(display, seen) == display \in seen

MaxCols == 2
MaxRows == 3

\* Two spellings of one number, and another number.
LocalA == Str(<<"0", "1">> \o Nine)
IntlA == Str(<<"+", "2", "0", "1">> \o Nine)
BareB == Str(<<"1", "1">> \o SubSeq(Nine, 2, 9))

\* The rows of a sheet of c columns: empty but for one spelling of the
\* number A in one cell, or for the numbers A and B in two cells.
LoopRows(c) ==
    {[i \in 1..c |-> IF i = a THEN u ELSE NaN] :
        a \in 1..c, u \in {NaN, LocalA, IntlA}}
    \cup {[i \in 1..c |-> IF i = a THEN u ELSE IF i = b THEN w ELSE NaN] :
            a \in 1..c, b \in 1..c, u \in {LocalA}, w \in {BareB}}
    \cup {<<>>}

Init ==
    /\ pc = "loop"
    /\ headers \in {HeaderList(n) : n \in 0..MaxCols}
    /\ df = <<>>
    /\ rows_out = <<>>
    /\ seen_phones = {}
    /\ result_count = 0
    /\ phone_digits = NoResult
    /\ message = Idle /\ link = Idle
    /\ text = Idle /\ result = Idle /\ exit_at = Idle /\ again = Idle
    /\ row = Idle /\ phrase = Idle

\* One iteration of "for _, row in df.iterrows()" on the next row r.
ProcessRow(r) ==
    /\ pc = "loop"
    /\ Len(df) < MaxRows
    /\ Len(r) = Len(headers)
    /\ df' = Append(df, r)
    /\ LET digits == extract_first_phone_from_row(r)
       IN  /\ phone_digits' = digits
           /\ IF ~Truthy(digits)
              THEN /\ pc' = "loop"
                   /\ UNCHANGED <<rows_out, seen_phones>>
              ELSE IF TotalStr(r).raised \/ build_quantity_phrase(r, headers).raised
              THEN /\ pc' = "IndexError"
                   /\ UNCHANGED <<rows_out, seen_phones>>
              ELSE IF IsDuplicate(PhoneDisplay(digits.s), seen_phones)
              THEN /\ pc' = "loop"
                   /\ UNCHANGED <<rows_out, seen_phones>>
              ELSE /\ pc' = "loop"
                   /\ seen_phones' = seen_phones \cup {PhoneDisplay(digits.s)}
                   /\ rows_out' = Append(rows_out, MakeRecord(r, headers, digits.s))
    /\ UNCHANGED <<headers, result_count, message, link, normVars, phraseVars>>

\* Lines 219-221: the rows are exhausted, result_df is built and counted.
Finish ==
    /\ pc = "loop"
    /\ pc' = "done"
    /\ result_count' = Len(rows_out)
    /\ UNCHANGED <<headers, df, rows_out, seen_phones, linkVars, normVars, phraseVars>>

Next ==
    \/ \E r \in LoopRows(Len(headers)) : ProcessRow(r)
    \/ Finish

Spec == Init /\ [][Next]_vars

(***************************************************************************)
(* Properties of normalize_eg_phone                                        *)
(***************************************************************************)

\* The pattern, stated as the set of strings it denotes: one of six
\* prefixes, then "1" and nine digits.
ShortPrefixes == {<<>>, <<"0">>, <<"2", "0">>, <<"+", "2", "0">>}
LongPrefixes == {<<"2", "0", "0">>, <<"+", "2", "0", "0">>}

CoreAt(s, k) ==
    /\ k >= 1 /\ k + 9 <= Len(s)
    /\ s[k] = "1"
    /\ \A d \in 1..9 : IsDigit(s[k + d])

PatternAt(s, i, p) ==
    /\ i + Len(p) - 1 <= Len(s)
    /\ SubSeq(s, i, i + Len(p) - 1) = p
    /\ CoreAt(s, i + Len(p))

MatchStarts(s) ==
    {i \in 1..Len(s) : \E p \in ShortPrefixes \cup LongPrefixes : PatternAt(s, i, p)}

Leftmost(s) == CHOOSE i \in MatchStarts(s) : \A k \in MatchStarts(s) : i <= k

\* "01" followed by nine digits
IsLocalNumber(s) ==
    Len(s) = 11 /\ s[1] = "0" /\ s[2] = "1" /\ \A k \in 3..11 : IsDigit(s[k])

\* "201" followed by nine digits
IsCanonicalNumber(s) ==
    /\ Len(s) = 12 /\ s[1] = "2" /\ s[2] = "0" /\ s[3] = "1"
    /\ \A k \in 4..12 : IsDigit(s[k])

\* C1: every result of normalize_eg_phone is a string of exactly 12
\* characters, all of them digits 0-9, that begins with "201".
C1_ResultIsTwelveDigits ==
    (pc = "returned" /\ ~result.none) =>
        /\ Len(result.s) = 12
        /\ SubSeq(result.s, 1, 3) = <<"2", "0", "1">>
        /\ \A k \in 1..Len(result.s) : result.s[k] \in AsciiDigits

\* C4: a cell text "01" followed by nine digits yields the text with its
\* leading "0" replaced by "20".
C4_LocalNumberGetsCountryCode ==
    (pc = "returned" /\ text.kind = "str" /\ IsLocalNumber(text.s)) =>
        result = Some(<<"2", "0">> \o Tail(text.s))

C4_Witness ==
    /\ pc = "returned"
    /\ text = Str(<<"0", "1">> \o Nine)
    /\ result = Some(<<"2", "0", "1">> \o Nine)

\* C7: normalising a result again returns it unchanged, and a cell text
\* "201" followed by nine digits is returned as it is.
C7_Idempotent ==
    /\ pc = "renormalized" => again = result
    /\ (pc = "returned" /\ text.kind = "str" /\ IsCanonicalNumber(text.s)) =>
           result = Some(text.s)

C7_Witness ==
    /\ pc = "renormalized"
    /\ text.s # result.s
    /\ again = result
    /\ ~again.none

\* C9 as the spec states it: some cell text passes one of the three
\* branches and is then rejected by the final gate.
C9_GateRejectsSomeCell ==
    pc = "call" => \E v \in NormInputs(MaxTokens) : NormalizeTrace(v).at = "gate"

\* C9, amended: the gate rejects nothing; whenever the matched digits pass
\* one of the three branches the call returns the normalised digits.
C9_GateNeverRejects ==
    pc = "returned" =>
        /\ exit_at # "gate"
        /\ exit_at \in {"none_input", "no_match", "else_branch"} <=> result.none

C9_Witness ==
    /\ pc = "returned"
    /\ exit_at = "return_digits"
    /\ text.kind = "str" /\ Len(StripNonDigits(text.s)) > 12

\* C10: no result exactly when the cell has no match or its leftmost match
\* has a long prefix (country code and "0"); otherwise the result is "20"
\* and the "1" and nine digits of the leftmost match, whatever surrounds it.
C10_LeftmostMatchDecides ==
    pc = "returned" =>
        IF text.kind = "None" THEN result.none
        ELSE
          LET s == PyStr(text)
          IN  IF MatchStarts(s) = {} THEN result.none
              ELSE
                LET i == Leftmost(s)
                IN  /\ result.none <=> \E p \in LongPrefixes : PatternAt(s, i, p)
                    /\ \A p \in ShortPrefixes :
                         PatternAt(s, i, p) =>
                           result = Some(<<"2", "0">>
                                         \o SubSeq(s, i + Len(p), i + Len(p) + 9))

\* A cell whose leftmost match has 13 digits and which holds a well-formed
\* number further right.
C10_Witness ==
    /\ pc = "returned"
    /\ text.kind = "str"
    /\ result.none
    /\ exit_at = "else_branch"
    /\ \E j \in MatchStarts(text.s) :
         /\ j > Leftmost(text.s)
         /\ \E p \in ShortPrefixes : PatternAt(text.s, j, p)

\* A ten-digit match inside a longer run of digits is accepted.
C10_EmbeddedRunAccepted ==
    /\ pc = "returned"
    /\ text.kind = "str"
    /\ ~result.none
    /\ LET i == RegexSearch(text.s).start
           j == RegexSearch(text.s).stop
       IN  /\ i > 1 /\ IsDigit(text.s[i - 1])
           /\ j = i + 10
           /\ j <= Len(text.s) /\ IsDigit(text.s[j])
           /\ result = Some(<<"2", "0">> \o SubSeq(text.s, i, j - 1))

(***************************************************************************)
(* Properties of build_quantity_phrase and the total lookup                *)
(***************************************************************************)

\* A cell that adds nothing to the phrase: absent, blank, "0" or "0.0".
Suppressed(cell) ==
    \/ cell.kind # "str"
    \/ strip(cell.s) \in {<<>>, <<"0">>, <<"0", ".", "0">>}

\* The item columns of the row, counted from 0, that hold a quantity.
EmittingColumns(r) == {i \in 4..11 : i < Len(r) /\ ~Suppressed(r[i + 1])}

RECURSIVE Ascending(_)
Ascending(S) ==
    IF S = {} THEN <<>>
    ELSE LET m == CHOOSE x \in S : \A y \in S : x <= y
         IN  <<m>> \o Ascending(S \ {m})

HasNote(r) == Len(r) > 0 /\ r[1].kind = "str" /\ strip(r[1].s) # <<>>

NoteCount(r) == IF HasNote(r) THEN 1 ELSE 0

EndsWith(s, t) == Len(s) >= Len(t) /\ SubSeq(s, Len(s) - Len(t) + 1, Len(s)) = t

\* The synthesized name of the item in column i, written out.
SynthesizedName(i) ==
    <<"u0635", "u0646", "u0641", " ">> \o
    CASE i = 4 -> <<"5">> [] i = 5 -> <<"6">> [] i = 6 -> <<"7">>
      [] i = 7 -> <<"8">> [] i = 8 -> <<"9">> [] i = 9 -> <<"1", "0">>
      [] i = 10 -> <<"1", "1">> [] i = 11 -> <<"1", "2">>

C8_ShortRowsDegrade ==
    pc = "built" =>
        LET parts == phrase.q.parts
            cols == Ascending(EmittingColumns(row))
            k0 == NoteCount(row)
        IN  /\ ~phrase.q.raised
            /\ ~phrase.total.raised
            /\ Len(row) <= 3 => phrase.total.s = <<>>
            /\ Len(row) = 0 => parts = <<>>
            /\ \A k \in (k0 + 1)..Len(parts) :
                 \E i \in 4..11 :
                    /\ i <= Len(row) - 1
                    /\ StartsWith(parts[k],
                                  (IF i < Len(headers) THEN headers[i + 1].s
                                   ELSE SynthesizedName(i)) \o <<":", " ">>)
            /\ \A k \in 1..Len(cols) :
                 (cols[k] >= Len(headers) /\ k0 + k <= Len(parts)) =>
                    StartsWith(parts[k0 + k], SynthesizedName(cols[k]) \o <<":", " ">>)

\* A row longer than the header list, with fragments under synthesized names.
C8_Witness ==
    /\ pc = "built"
    /\ Len(headers) < 5
    /\ Len(row) > 11
    /\ ~phrase.q.raised /\ ~phrase.total.raised
    /\ Len(phrase.q.parts) >= 8

\* A row too short to hold a total.
C8_ShortRow ==
    /\ pc = "built"
    /\ Len(row) \in 1..3
    /\ Len(headers) > Len(row)
    /\ phrase.total = [raised |-> FALSE, s |-> <<>>]

(***************************************************************************)
(* Properties of build_wa_link                                             *)
(***************************************************************************)

IsHex(c) == \E n \in 0..15 : HexChar(n) = c

HexVal(c) == CHOOSE n \in 0..15 : HexChar(n) = c

\* Percent-decoding, to bytes: "%XX" is one byte, any other character its own.
RECURSIVE UnquoteBytes(_)
UnquoteBytes(v) ==
    IF v = <<>> THEN <<>>
    ELSE IF v[1] = "%" /\ Len(v) >= 3 /\ IsHex(v[2]) /\ IsHex(v[3])
    THEN <<16 * HexVal(v[2]) + HexVal(v[3])>> \o UnquoteBytes(SubSeq(v, 4, Len(v)))
    ELSE <<CodePoint(v[1])>> \o UnquoteBytes(Tail(v))

\* chr(cp), "?" standing for a character outside the model's alphabet.
CharOf(cp) ==
    IF \E c \in MsgAlphabet : CodePoint(c) = cp
    THEN CHOOSE c \in MsgAlphabet : CodePoint(c) = cp
    ELSE "unknown"

\* bytes.decode("utf-8")
RECURSIVE Utf8Decode(_)
Utf8Decode(bs) ==
    IF bs = <<>> THEN <<>>
    ELSE IF bs[1] < 128 THEN <<CharOf(bs[1])>> \o Utf8Decode(Tail(bs))
    ELSE IF bs[1] >= 192 /\ bs[1] < 224 /\ Len(bs) >= 2
    THEN <<CharOf((bs[1] - 192) * 64 + (bs[2] - 128))>>
         \o Utf8Decode(SubSeq(bs, 3, Len(bs)))
    ELSE IF bs[1] >= 224 /\ bs[1] < 240 /\ Len(bs) >= 3
    THEN <<CharOf((bs[1] - 224) * 4096 + (bs[2] - 128) * 64 + (bs[3] - 128))>>
         \o Utf8Decode(SubSeq(bs, 4, Len(bs)))
    ELSE <<"unknown">> \o Utf8Decode(Tail(bs))

\* Characters that must not stand unescaped in a query value.
RawForbidden == {" ", "LF", "&", "?", "=", "/", "#", "u0633", "u20AC"}

\* C5: for a message that is not blank the link is
\* "https://wa.me/<phone>?text=<v>", percent-decoding v gives the message
\* back as it was passed, and v holds no raw space, newline or reserved
\* character: every "%" in it starts an escape.
C5_LinkRoundTrip ==
    (pc = "linked" /\ strip(message) # <<>>) =>
        LET prefix == WaBase \o phone_digits \o TextParam
            v == SubSeq(link, Len(prefix) + 1, Len(link))
        IN  /\ StartsWith(link, prefix)
            /\ Utf8Decode(UnquoteBytes(v)) = message
            /\ \A k \in 1..Len(v) :
                 /\ v[k] \notin RawForbidden
                 /\ v[k] = "%" => k + 2 <= Len(v) /\ IsHex(v[k + 1]) /\ IsHex(v[k + 2])

\* A message with a leading space, a two-byte letter and a final newline.
C5_Witness ==
    /\ pc = "linked"
    /\ message = <<" ", "u0633", "LF">>
    /\ link = WaBase \o phone_digits \o TextParam
              \o <<"%", "2", "0", "%", "D", "8", "%", "B", "3", "%", "0", "A">>

(***************************************************************************)
(* Properties of the row loop                                              *)
(***************************************************************************)

\* The phone the scan of row k of the sheet finds.
Discovered(k) == extract_first_phone_from_row(df[k])

\* The rows that are the first to carry their phone, disc[k] being the
\* phone found on row k.
FirstOccurrences(disc) ==
    {k \in 1..Len(df) :
        /\ ~disc[k].none
        /\ \A j \in 1..(k - 1) : disc[j] # disc[k]}

\* C2: the output holds one record for each phone found, built from the
\* earliest row that carries it, in the order of these rows; no two
\* records share a phone.
C2_FirstOccurrenceWins ==
    pc \in {"loop", "done"} =>
        \A disc \in {[k \in 1..Len(df) |-> Discovered(k)]} :
          \A firsts \in {Ascending(FirstOccurrences(disc))} :
            /\ Len(rows_out) = Len(firsts)
            /\ \A i \in 1..Len(firsts) :
                 rows_out[i] = MakeRecord(df[firsts[i]], headers, disc[firsts[i]].s)
            /\ \A i, j \in 1..Len(rows_out) :
                 i # j => rows_out[i].phone # rows_out[j].phone

\* Three rows: a phone, another phone, and the first phone again in a row
\* that would give another message.
C2_Witness ==
    /\ Len(df) = 3
    /\ Discovered(1) = Discovered(3)
    /\ ~Discovered(1).none /\ ~Discovered(2).none
    /\ Discovered(1) # Discovered(2)
    /\ df[1] # df[3]
    /\ MakeRecord(df[1], headers, Discovered(1).s).msg
         # MakeRecord(df[3], headers, Discovered(3).s).msg
    /\ Len(rows_out) = 2

\* The cells of a row, counted from 1, that yield a phone.
Hits(r) == {k \in 1..Len(r) : ~normalize_eg_phone(r[k]).none}

LastRow == df[Len(df)]

\* The scan of the row last read returned the result of its first cell
\* that yields one, and no result when no cell yields one.
ScanReturnsFirstHit ==
    (pc \in {"loop", "done"} /\ Len(df) > 0) =>
        IF Hits(LastRow) = {} THEN phone_digits.none
        ELSE phone_digits =
               normalize_eg_phone(
                   LastRow[CHOOSE k \in Hits(LastRow) : \A l \in Hits(LastRow) : k <= l])

\* C3: extract_first_phone_from_row returns the result of the lowest-index
\* cell that yields one, no result exactly when no cell yields one, and a
\* row without result adds no record.
C3_FirstCellWins ==
    /\ []ScanReturnsFirstHit
    /\ [][(df' # df /\ Hits(df'[Len(df')]) = {}) => rows_out' = rows_out]_vars

\* A row with two numbers, of which the scan returned the first.
C3_Witness ==
    /\ pc = "loop"
    /\ Len(df) > 0
    /\ \E a, b \in Hits(LastRow) :
         /\ a < b
         /\ normalize_eg_phone(LastRow[a]) # normalize_eg_phone(LastRow[b])
         /\ phone_digits = normalize_eg_phone(LastRow[a])
    /\ rows_out # <<>>

=============================================================================
